---- MODULE Spec2Model ----
(***************************************************************************)
(* Procrustes alignment core of aligner-blender (procrustes_utils.py):     *)
(* procrustes_alignment, compute_alignment_error and                       *)
(* procrustes_superimposition.                                             *)
(*                                                                         *)
(* Numbers.  A float is modelled as a fixed-point integer with             *)
(* denominator ONE; the length unit of the model is 1e-10 scene units, so  *)
(* that the threshold 1e-10 of the scale test is the fixed-point number    *)
(* Eps = ONE and norms below, at and above it are all representable.       *)
(* Orthogonal matrices (U, Vt, R) are integer matrices.                    *)
(*                                                                         *)
(* SVD.  np.linalg.svd is modelled as a nondeterministic choice among the  *)
(* decompositions H = U.diag(S).Vt whose U and Vt are signed permutation   *)
(* matrices and whose S is non-negative and descending.  The input pools   *)
(* are chosen so that every H the program forms has such a decomposition   *)
(* (SvdDefined checks it).                                                 *)
(*                                                                         *)
(* Add-on.  The draw handlers of the landmark preview (preview.py) are a   *)
(* state machine of their own, PreviewSpec, over the module variables      *)
(* _handler_3d and _handler_2d and the callbacks registered with           *)
(* SpaceView3D.  The specifications share Init, the state after the        *)
(* modules are imported, and each leaves the other's variables alone.      *)
(* The operator align_objects (operators.py) is SceneSpec: execute on a    *)
(* scene of objects with landmark properties, calling procrustes_alignment *)
(* as modelled for the core.  Blender's Vector and Matrix hold 32-bit      *)
(* floats; the model keeps the fixed-point values.                         *)
(***************************************************************************)
EXTENDS Integers, Sequences, FiniteSets, TLC

VARIABLES
    pc,          \* position: "idle", the steps of procrustes_superimposition, "done"
    op,          \* the operation called: "none", "align", "rmse", "superimpose"
    heap,        \* the arrays allocated so far; an array's identity is its index
    args,        \* identities of the input arrays of the call
    params,      \* the scalar arguments of the call
    aligned,     \* superimpose: list of identities (the local `aligned`)
    mean_shape,  \* superimpose: identity of `mean_shape` (0 = not yet bound)
    old_mean,    \* superimpose: identity of `old_mean` (0 = not yet bound)
    iteration,   \* superimpose: the loop variable `iteration`
    idx,         \* superimpose: the loop variable `i` (1-based)
    printed,     \* the diagnostics written with print(), in order
    result,      \* the outcome of the call: a returned tuple or a raised exception
    given,       \* the values of the input arrays when the call was made
    calls,       \* the procrustes_alignment invocations made by the call, in order
    handler_3d,  \* preview: the module variable _handler_3d (None or a handle)
    handler_2d,  \* preview: the module variable _handler_2d (None or a handle)
    draw_handlers,  \* preview: the callbacks registered with SpaceView3D
    preview_active, \* preview: the scene property procrustes_preview_active
    redraw_tagged,  \* preview: the 3D views are tagged for redraw
    ppc,         \* preview: position in register_/unregister_draw_handlers
    entry,       \* preview: the function the running or last call entered by,
                 \*          and the handles held when it was called
    spc,         \* align_objects: position in execute ("idle", "objects", "done")
    objects,     \* align_objects: the objects of the scene, by name
    objects0,    \* align_objects: the objects as they were when execute was called
    scene,       \* align_objects: the scene properties execute reads
    ex,          \* align_objects: the locals of execute
    status,      \* align_objects: what execute returned
    reports,     \* align_objects: the self.report() messages, in order
    written      \* align_objects: the objects whose matrix_world was assigned, in order

core_vars == <<pc, op, heap, args, params, aligned, mean_shape, old_mean,
               iteration, idx, printed, result, given, calls>>

preview_vars == <<handler_3d, handler_2d, draw_handlers, preview_active,
                  redraw_tagged, ppc, entry>>

scene_vars == <<spc, objects, objects0, scene, ex, status, reports, written>>

\* the variables of the add-on around the alignment core
addon_vars == <<preview_vars, scene_vars>>

vars == <<core_vars, addon_vars>>

-----------------------------------------------------------------------------
(* Fixed-point arithmetic *)

ONE == 60

\* the literal 1e-10 of the scale test, in model units
Eps == ONE

Abs(x) == IF x < 0 THEN -x ELSE x

\* a / b rounded to nearest, ties away from zero (b > 0)
Rnd(a, b) == IF a >= 0 THEN (2 * a + b) \div (2 * b)
                       ELSE -((2 * (-a) + b) \div (2 * b))

FMul(a, b) == Rnd(a * b, ONE)

FDiv(a, b) == IF b > 0 THEN Rnd(a * ONE, b) ELSE -Rnd(a * ONE, -b)

\* np.sqrt of a non-negative fixed-point number, rounded down
FSqrt(x) == CHOOSE r \in 0..(x + ONE) : r * r <= x * ONE /\ (r + 1) * (r + 1) > x * ONE

RECURSIVE SumSeq(_)
SumSeq(s) == IF s = <<>> THEN 0 ELSE Head(s) + SumSeq(Tail(s))

MaxOf(S) == CHOOSE x \in S : \A y \in S : y <= x

-----------------------------------------------------------------------------
(* Arrays: shape and data, as numpy keeps them *)

Arr2(rows, d) == [shape |-> <<Len(rows), d>>, data |-> rows]

Arr1(xs) == [shape |-> <<Len(xs)>>, data |-> xs]

\* np.array([])
EmptyArray == Arr1(<<>>)

\* arr.copy(): a new array object with the same contents
ArrayCopy(h, id) == [heap |-> Append(h, h[id]), id |-> Len(h) + 1]

\* a new array object holding value a
Alloc(h, a) == [heap |-> Append(h, a), id |-> Len(h) + 1]

\* np.mean(rows, axis=0) of an N x d block
ColMean(rows, d) ==
    [j \in 1..d |-> Rnd(SumSeq([k \in 1..Len(rows) |-> rows[k][j]]), Len(rows))]

\* rows - centroid (broadcast)
Centered(rows, c) == [k \in 1..Len(rows) |-> [j \in 1..Len(c) |-> rows[k][j] - c[j]]]

\* np.sqrt(np.sum(rows ** 2))
FrobNorm(rows) ==
    FSqrt(SumSeq([k \in 1..Len(rows) |->
                    SumSeq([j \in 1..Len(rows[k]) |-> FMul(rows[k][j], rows[k][j])])]))

\* rows * scale
ScaleRows(rows, s) == [k \in 1..Len(rows) |-> [j \in 1..Len(rows[k]) |-> FMul(rows[k][j], s)]]

\* H = tgt_centered_scaled.T @ ref_centered (3 x 3)
CrossCov(t, r) ==
    [j \in 1..3 |-> [l \in 1..3 |->
        Rnd(SumSeq([k \in 1..Len(t) |-> t[k][j] * r[k][l]]), ONE)]]

-----------------------------------------------------------------------------
(* 3 x 3 matrices *)

Transpose3(A) == [j \in 1..3 |-> [l \in 1..3 |-> A[l][j]]]

\* product of two integer matrices, or of an integer matrix and a fixed-point one
MatMul3(A, B) ==
    [j \in 1..3 |-> [l \in 1..3 |-> A[j][1] * B[1][l] + A[j][2] * B[2][l] + A[j][3] * B[3][l]]]

\* np.linalg.det of a 3 x 3 matrix
Det3(A) ==
      A[1][1] * (A[2][2] * A[3][3] - A[2][3] * A[3][2])
    - A[1][2] * (A[2][1] * A[3][3] - A[2][3] * A[3][1])
    + A[1][3] * (A[2][1] * A[3][2] - A[2][2] * A[3][1])

\* the orthogonal matrices with entries in {-1, 0, 1}
SignedPerms ==
    { [j \in 1..3 |-> [l \in 1..3 |-> IF l = p[j] THEN s[j] ELSE 0]] :
        p \in { q \in [1..3 -> 1..3] : \A a, b \in 1..3 : a # b => q[a] # q[b] },
        s \in [1..3 -> {-1, 1}] }

Id3 == <<<<1, 0, 0>>, <<0, 1, 0>>, <<0, 0, 1>>>>
Zero3 == <<<<0, 0, 0>>, <<0, 0, 0>>, <<0, 0, 0>>>>

RowAbsSum(M, j) == Abs(M[j][1]) + Abs(M[j][2]) + Abs(M[j][3])

\* M = diag(S).Vt: row j of M is S[j] times row j of Vt
IsRowScaled(M, S, Vt) == \A j \in 1..3 : \A l \in 1..3 : M[j][l] = S[j] * Vt[j][l]

\* the candidates for U: M = U^T.H = diag(S).Vt fixes S, which must be descending
SvdLeft(H) ==
    { x \in { [U |-> U, M |-> M,
               S |-> <<RowAbsSum(M, 1), RowAbsSum(M, 2), RowAbsSum(M, 3)>>]
              : <<U, M>> \in { <<W, MatMul3(Transpose3(W), H)>> : W \in SignedPerms } }
        : x.S[1] >= x.S[2] /\ x.S[2] >= x.S[3] }

\* the candidates for Vt that go with a candidate for U
SvdRight(c) == { V \in SignedPerms : IsRowScaled(c.M, c.S, V) }

-----------------------------------------------------------------------------
(* procrustes_alignment *)

\* np.eye(4)
Eye4 == [a \in 1..4 |-> [b \in 1..4 |-> IF a = b THEN ONE ELSE 0]]

MsgShape == "Error: Reference and target point sets must have the same shape"
MsgPoints == "Error: Need at least 3 points for Procrustes alignment"
MsgDim == "Error: Points must be 3-dimensional"
MsgVariance == "Warning: Target points have near-zero variance"

\* a call that returned normally: the returned tuple, what it printed, and the
\* stages of the computation it went through
Returned(value, msgs, work) ==
    [kind |-> "return", value |-> value, exc |-> "", printed |-> msgs, work |-> work]

\* a call that raised
Raised(exc, msgs, work) ==
    [kind |-> "raise", value |-> <<>>, exc |-> exc, printed |-> msgs, work |-> work]

\* (mutant) a failure that returns scale 0.0
FailureReturnZeroScale(msg, work) == Returned(<<FALSE, Eye4, 0>>, <<msg>>, work)

\* print(msg); return False, np.eye(4), 1.0
FailureReturn(msg, work) == Returned(<<FALSE, Eye4, ONE>>, <<msg>>, work)

\* (mutant) the point count is tested before the shapes are compared
ValidatePointsFirst(rshape, tshape) ==
    IF Len(rshape) < 1 THEN "IndexError"
    ELSE IF rshape[1] < 3 THEN MsgPoints
    ELSE IF rshape # tshape THEN MsgShape
    ELSE IF Len(rshape) < 2 THEN "IndexError"
    ELSE IF rshape[2] # 3 THEN MsgDim
    ELSE "ok"

\* the input validation: "ok", the message of the failing test, or "IndexError"
\* when shape[0] or shape[1] does not exist
ValidateShapes(rshape, tshape) ==
    IF rshape # tshape THEN MsgShape
    ELSE IF Len(rshape) < 1 THEN "IndexError"
    ELSE IF rshape[1] < 3 THEN MsgPoints
    ELSE IF Len(rshape) < 2 THEN "IndexError"
    ELSE IF rshape[2] # 3 THEN MsgDim
    ELSE "ok"

\* (mutant) the scale test accepts a norm of exactly 1e-10
ScaleStepInclusive(ref_centered, tgt_centered, allow_scale) ==
    IF allow_scale
    THEN LET ref_scale == FrobNorm(ref_centered)
             tgt_scale == FrobNorm(tgt_centered)
         IN  IF tgt_scale >= Eps
             THEN [ok |-> TRUE, scale |-> FDiv(ref_scale, tgt_scale)]
             ELSE [ok |-> FALSE, scale |-> ONE]
    ELSE [ok |-> TRUE, scale |-> ONE]

\* step 3: the scale factor, or failure on a target of near-zero spread
ScaleStep(ref_centered, tgt_centered, allow_scale) ==
    IF allow_scale
    THEN LET ref_scale == FrobNorm(ref_centered)
             tgt_scale == FrobNorm(tgt_centered)
         IN  IF tgt_scale > Eps
             THEN [ok |-> TRUE, scale |-> FDiv(ref_scale, tgt_scale)]
             ELSE [ok |-> FALSE, scale |-> ONE]
    ELSE [ok |-> TRUE, scale |-> ONE]

\* Vt_corrected = Vt.copy(); Vt_corrected[-1, :] *= -1
FlipLastRow(Vt) == [j \in 1..3 |-> [l \in 1..3 |-> IF j = 3 THEN -Vt[j][l] ELSE Vt[j][l]]]

\* R = Vt.T @ U.T
RotationFrom(U, Vt) ==
    [a \in 1..3 |-> [b \in 1..3 |->
        Vt[1][a] * U[b][1] + Vt[2][a] * U[b][2] + Vt[3][a] * U[b][3]]]

\* (mutant) the reflection is never corrected
RotationUncorrected(U, Vt, allow_reflection) == RotationFrom(U, Vt)

\* steps 5 and 6: R = Vt.T @ U.T, corrected when reflections are not allowed
Rotation(U, Vt, allow_reflection) ==
    CHOOSE Rc \in
      { IF ~allow_reflection /\ Det3(R) < 0
        THEN CHOOSE R2 \in { RotationFrom(U, Vc) : Vc \in { FlipLastRow(Vt) } } : TRUE
        ELSE R
        : R \in { RotationFrom(U, Vt) } }
      : TRUE

\* U, S, Vt = np.linalg.svd(H) followed by steps 5 and 6: np.linalg.svd returns
\* some decomposition H = U.diag(S).Vt with S[1] >= S[2] >= S[3] >= 0; the
\* model takes every one whose U and Vt are signed permutation matrices.  H = 0
\* is decomposed by every pair (U, Vt) with S = 0, and the rotations of all the
\* pairs are those of the pairs with Vt = I (ZeroSvd), which are enumerated
Rotations(H, allow_reflection) ==
    IF H = Zero3
    THEN { Rotation(U, Id3, allow_reflection) : U \in SignedPerms }
    ELSE UNION { { Rotation(c.U, Vt, allow_reflection) : Vt \in SvdRight(c) }
               : c \in SvdLeft(H) }

\* step 7: translation = ref_centroid - R @ (scale * tgt_centroid)
Translation(ref_centroid, tgt_centroid, R, scale) ==
    [a \in 1..3 |->
        ref_centroid[a] - (  R[a][1] * FMul(scale, tgt_centroid[1])
                           + R[a][2] * FMul(scale, tgt_centroid[2])
                           + R[a][3] * FMul(scale, tgt_centroid[3]))]

\* step 8: the 4 x 4 homogeneous matrix
BuildTransform(R, scale, translation) ==
    [a \in 1..4 |-> [b \in 1..4 |->
        IF a <= 3 /\ b <= 3 THEN R[a][b] * scale
        ELSE IF a <= 3 THEN translation[a]
        ELSE IF b = 4 THEN ONE ELSE 0]]

WorkValidate == <<"validate">>
WorkScale == <<"validate", "centroid", "scale">>
WorkAll == <<"validate", "centroid", "scale", "svd", "transform">>

\* steps 1 to 4: centroids, centering, scale, cross-covariance
Prepare(reference_points, target_points, allow_scale) ==
    CHOOSE p \in
      { [ref_centroid |-> rc, tgt_centroid |-> tc, ok |-> sc.ok, scale |-> sc.scale,
         H |-> IF sc.ok THEN CrossCov(ScaleRows(tcd, sc.scale), rcd) ELSE <<>>]
        : <<rc, tc, rcd, tcd, sc>> \in
            { <<c[1], c[2], d[1], d[2], ScaleStep(d[1], d[2], allow_scale)>>
              : <<c, d>> \in
                  { <<e, <<Centered(reference_points.data, e[1]),
                           Centered(target_points.data, e[2])>>>>
                    : e \in { <<ColMean(reference_points.data, 3),
                                ColMean(target_points.data, 3)>> } } } }
      : TRUE

\* the outcomes of procrustes_alignment(reference_points, target_points,
\* allow_scale, allow_reflection): one per decomposition np.linalg.svd may return
procrustes_alignment(reference_points, target_points, allow_scale, allow_reflection) ==
    UNION {
      IF v = "IndexError" THEN { Raised("IndexError", <<>>, WorkValidate) }
      ELSE IF v # "ok" THEN { FailureReturn(v, WorkValidate) }
      ELSE UNION {
        IF ~p.ok THEN { FailureReturn(MsgVariance, WorkScale) }
        ELSE { Returned(<<TRUE,
                          BuildTransform(R, p.scale,
                             Translation(p.ref_centroid, p.tgt_centroid, R, p.scale)),
                          p.scale>>, <<>>, WorkAll)
               : R \in Rotations(p.H, allow_reflection) }
        : p \in { Prepare(reference_points, target_points, allow_scale) } }
      : v \in { ValidateShapes(reference_points.shape, target_points.shape) } }

\* transform[:3, :3]
LinearBlock(transform) == [a \in 1..3 |-> [b \in 1..3 |-> transform[a][b]]]

\* (transform @ hstack([pts, ones]).T).T[:, :3]
ApplyTransform(transform, rows) ==
    [k \in 1..Len(rows) |-> [a \in 1..3 |->
        Rnd(  transform[a][1] * rows[k][1] + transform[a][2] * rows[k][2]
            + transform[a][3] * rows[k][3] + transform[a][4] * ONE, ONE)]]

-----------------------------------------------------------------------------
(* compute_alignment_error *)

\* np.sqrt(np.mean(np.sum((reference - transformed) ** 2, axis=1)))
compute_alignment_error(reference_points, target_points, transform_matrix) ==
    LET transformed == ApplyTransform(transform_matrix, target_points.data)
        n == Len(transformed)
        sq == [k \in 1..n |->
                 SumSeq([a \in 1..3 |->
                    FMul(reference_points.data[k][a] - transformed[k][a],
                         reference_points.data[k][a] - transformed[k][a])])]
    IN  FSqrt(Rnd(SumSeq(sq), n))

-----------------------------------------------------------------------------
(* Inputs *)

MaxSets == 3
MaxIter == 2

Pt(x, y, z) == <<x * ONE, y * ONE, z * ONE>>

\* s.Q.p + t for every point p of rows
Image(rows, Q, s, t) ==
    [k \in 1..Len(rows) |-> [a \in 1..3 |->
        s * (Q[a][1] * rows[k][1] + Q[a][2] * rows[k][2] + Q[a][3] * rows[k][3]) + t[a]]]

FlipX == <<<<-1, 0, 0>>, <<0, 1, 0>>, <<0, 0, 1>>>>
Rot180Z == <<<<-1, 0, 0>>, <<0, -1, 0>>, <<0, 0, 1>>>>
Rot90Z == <<<<0, -1, 0>>, <<1, 0, 0>>, <<0, 0, 1>>>>

\* a regular tetrahedron and an isosceles triangle
Tetra == <<Pt(1, 1, 1), Pt(1, -1, -1), Pt(-1, 1, -1), Pt(-1, -1, 1)>>
Iso == <<Pt(0, 0, 0), Pt(2, 0, 0), Pt(1, 3, 0)>>

\* four points, two and two coincident, a apart: the centered norm is a
PairSet(a) == <<Pt(0, 0, 0), Pt(0, 0, 0), <<a, 0, 0>>, <<a, 0, 0>>>>

\* point sets a superimpose call is given
GpaPool ==
    { Arr2(Tetra, 3),
      Arr2(Image(Tetra, FlipX, 2, Pt(1, 0, 0)), 3),
      Arr2(PairSet(0), 3),
      Arr2(<<Pt(0, 0, 0), Pt(1, 0, 0)>>, 3),
      Arr2(<<>>, 3),
      Arr2(<<<<0, 0>>, <<ONE, 0>>, <<0, ONE>>, <<ONE, ONE>>>>, 2),
      Arr1(<<0, ONE, 2 * ONE, 3 * ONE>>) }

\* point sets an align call is given
AlignPool ==
    GpaPool \cup
    { Arr2(Image(Tetra, Rot180Z, 1, Pt(0, 1, 0)), 3),
      Arr2(Image(Tetra, Rot90Z, 1, Pt(0, 0, 2)), 3),
      Arr2(PairSet(ONE \div 2), 3),
      Arr2(PairSet(Eps), 3),
      Arr2(PairSet(2 * ONE), 3),
      Arr2(Iso, 3),
      Arr2(Image(Iso, Rot90Z, 2, Pt(5, 5, 0)), 3),
      Arr2(Image(Iso, FlipX, 1, Pt(0, 0, 0)), 3),
      Arr1(<<0, ONE>>) }

\* convergence tolerances
Tolerances == {-1, 0, ONE \div 5, ONE}

\* lists of at most n elements of S
ListsUpTo(S, n) == UNION { [1..m -> S] : m \in 0..n }

NoParams == [allow_scale |-> FALSE, allow_reflection |-> FALSE,
             max_iterations |-> 0, tolerance |-> 0]

-----------------------------------------------------------------------------
(* procrustes_superimposition: helpers *)

\* np.mean(arrs, axis=0) of a list of arrays of one shape
MeanOfArrays(arrs) ==
    LET m == Len(arrs)
        shape == arrs[1].shape
    IN  [shape |-> shape,
         data |-> IF Len(shape) = 1
                  THEN [k \in 1..shape[1] |->
                          Rnd(SumSeq([i \in 1..m |-> arrs[i].data[k]]), m)]
                  ELSE [k \in 1..shape[1] |-> [j \in 1..shape[2] |->
                          Rnd(SumSeq([i \in 1..m |-> arrs[i].data[k][j]]), m)]]]

\* the elements of np.abs(a - b)
AbsDiffs(a, b) ==
    IF Len(a.shape) = 1
    THEN { Abs(a.data[k] - b.data[k]) : k \in 1..a.shape[1] }
    ELSE { Abs(a.data[k][j] - b.data[k][j]) : k \in 1..a.shape[1], j \in 1..a.shape[2] }

MsgSets == "Error: Need at least 2 point sets for GPA"
MsgSetShape == "Error: All point sets must have the same shape"
MsgFailed(i) == <<"Warning: Failed to align configuration", i>>
MsgConverged(n) == <<"GPA converged after iterations", n>>
MsgMaxIter(n) == <<"GPA reached maximum iterations", n>>

-----------------------------------------------------------------------------
(* State machine *)

NoResult == [kind |-> "none", value |-> <<>>, exc |-> ""]

\* Python's None, as the value of a handle variable
None == 0

\* the scene properties and the locals of execute before it is called
NoScene == [reference_object |-> None, allow_scale |-> FALSE, allow_reflection |-> FALSE]
NoLocals == [order |-> <<>>, reference_obj_name |-> None, reference_landmarks |-> <<>>, k |-> 0]

\* no function of preview.py has been called yet; otherwise entry is the
\* function called and the values of the two handle variables at the call
NoEntry == [fn |-> "none", held |-> <<None, None>>]

Outcome(out) == [kind |-> out.kind, value |-> out.value, exc |-> out.exc]

\* one procrustes_alignment invocation: pass and set are those of the GPA loop
\* (0 for a direct call), ref the identity of the reference array
Invocation(pass, set, ref, out) ==
    [pass |-> pass, set |-> set, ref |-> ref,
     ok |-> out.kind = "return" /\ out.value[1], work |-> out.work]

Init ==
    /\ pc = "idle"
    /\ op = "none"
    /\ heap = <<>>
    /\ args = <<>>
    /\ params = NoParams
    /\ aligned = <<>>
    /\ mean_shape = 0
    /\ old_mean = 0
    /\ iteration = -1
    /\ idx = 0
    /\ printed = <<>>
    /\ result = NoResult
    /\ given = <<>>
    /\ calls = <<>>
    /\ handler_3d = None
    /\ handler_2d = None
    /\ draw_handlers = {}
    /\ preview_active = FALSE
    /\ redraw_tagged = FALSE
    /\ ppc = "idle"
    /\ entry = NoEntry
    /\ spc = "idle"
    /\ objects = <<>>
    /\ objects0 = <<>>
    /\ scene = NoScene
    /\ ex = NoLocals
    /\ status = "none"
    /\ reports = <<>>
    /\ written = <<>>

\* a caller invokes procrustes_alignment(ref, tgt, allow_scale, allow_reflection)
CallAlign ==
    /\ pc = "idle"
    /\ \E ref \in AlignPool, tgt \in AlignPool, s \in BOOLEAN, r \in BOOLEAN :
         \E out \in procrustes_alignment(ref, tgt, s, r) :
            /\ heap' = <<ref, tgt>>
            /\ given' = <<ref, tgt>>
            /\ args' = <<1, 2>>
            /\ params' = [NoParams EXCEPT !.allow_scale = s, !.allow_reflection = r]
            /\ printed' = out.printed
            /\ result' = Outcome(out)
            /\ calls' = <<Invocation(0, 0, 1, out)>>
    /\ op' = "align"
    /\ pc' = "done"
    /\ UNCHANGED <<aligned, mean_shape, old_mean, iteration, idx>>
    /\ UNCHANGED addon_vars

\* a caller invokes compute_alignment_error(ref, tgt, transform) on two point
\* sets of one shape N x 3, N > 0, and a transform procrustes_alignment returned
\* for them (for N = 0 the result is nan, which the model does not represent)
CallRmse ==
    /\ pc = "idle"
    /\ \E ref \in AlignPool, tgt \in AlignPool, s \in BOOLEAN, r \in BOOLEAN :
         /\ ref.shape = tgt.shape /\ Len(ref.shape) = 2 /\ ref.shape[2] = 3
         /\ ref.shape[1] > 0
         /\ \E out \in procrustes_alignment(ref, tgt, s, r) :
              /\ heap' = <<ref, tgt>>
              /\ given' = <<ref, tgt>>
              /\ args' = <<1, 2>>
              /\ params' = [NoParams EXCEPT !.allow_scale = s, !.allow_reflection = r]
              /\ result' = [kind |-> "return",
                            value |-> <<compute_alignment_error(ref, tgt, out.value[2])>>,
                            exc |-> ""]
    /\ op' = "rmse"
    /\ pc' = "done"
    /\ UNCHANGED <<aligned, mean_shape, old_mean, iteration, idx, printed, calls>>
    /\ UNCHANGED addon_vars

\* (mutant) a single point set is let through
InputCheckOneSet(point_sets) ==
    IF Len(point_sets) < 1 THEN MsgSets
    ELSE IF \E i \in 1..Len(point_sets) : point_sets[i].shape # point_sets[1].shape
         THEN MsgSetShape
         ELSE "ok"

\* the two input checks: "ok" or the message of the failing one
InputCheck(point_sets) ==
    IF Len(point_sets) < 2 THEN MsgSets
    ELSE IF \E i \in 1..Len(point_sets) : point_sets[i].shape # point_sets[1].shape
         THEN MsgSetShape
         ELSE "ok"

\* (mutant) the last set is left out of the mean
MeanShapeButLast(h, ids) == MeanOfArrays([i \in 1..(Len(ids) - 1) |-> h[ids[i]]])

\* mean_shape = np.mean(aligned, axis=0)
MeanShape(h, ids) == MeanOfArrays([i \in 1..Len(ids) |-> h[ids[i]]])

\* (mutant) aligned = list(point_sets): no copies
CopyNone(h, ids) == [heap |-> h, ids |-> ids]

\* aligned = [pts.copy() for pts in point_sets]: the heap after the copies and
\* the identities of the copies
CopyAll(h, ids) ==
    [heap |-> h \o [i \in 1..Len(ids) |-> h[ids[i]]],
     ids |-> [i \in 1..Len(ids) |-> Len(h) + i]]

\* procrustes_superimposition(point_sets, max_iterations, tolerance, allow_scale)
\* up to the loop: the two input checks, the copies and the initial mean
CallSuperimpose ==
    /\ pc = "idle"
    /\ op' = "superimpose"
    /\ \E point_sets \in ListsUpTo(GpaPool, MaxSets), n \in 0..MaxIter,
          tol \in Tolerances, s \in BOOLEAN :
         /\ args' = [i \in 1..Len(point_sets) |-> i]
         /\ given' = point_sets
         /\ params' = [NoParams EXCEPT !.allow_scale = s, !.max_iterations = n,
                                       !.tolerance = tol]
         /\ \E chk \in { InputCheck(point_sets) } :
              IF chk # "ok"
              THEN /\ heap' = Append(point_sets, EmptyArray)
                   /\ printed' = <<chk>>
                   /\ result' = [kind |-> "return",
                                 value |-> <<FALSE, <<>>, Len(point_sets) + 1>>,
                                 exc |-> ""]
                   /\ pc' = "done"
                   /\ UNCHANGED <<aligned, mean_shape>>
              ELSE \E c \in { CopyAll(point_sets, [i \in 1..Len(point_sets) |-> i]) } :
                       /\ heap' = Append(c.heap, MeanShape(c.heap, c.ids))
                       /\ aligned' = c.ids
                       /\ mean_shape' = Len(c.heap) + 1
                       /\ pc' = "loop"
                       /\ UNCHANGED <<printed, result>>
    /\ UNCHANGED <<old_mean, iteration, idx, calls>>
    /\ UNCHANGED addon_vars

\* (mutant) the range yields one value more
RangeHasNextInclusive(it, n) == it + 1 <= n

\* range(max_iterations) has a value after `it` (-1 before the first)
RangeHasNext(it, n) == it + 1 < n

\* return True, aligned, mean_shape
ReturnAligned == [kind |-> "return", value |-> <<TRUE, aligned, mean_shape>>, exc |-> ""]

\* for iteration in range(max_iterations): the next pass starts;
\* old_mean = mean_shape.copy()
PassBegin ==
    /\ pc = "loop"
    /\ RangeHasNext(iteration, params.max_iterations)
    /\ iteration' = iteration + 1
    /\ LET c == ArrayCopy(heap, mean_shape)
       IN  heap' = c.heap /\ old_mean' = c.id
    /\ idx' = 1
    /\ pc' = "align"
    /\ UNCHANGED <<op, args, params, aligned, mean_shape, printed, result, given, calls>>
    /\ UNCHANGED addon_vars

\* the range is exhausted: the else branch of the for loop, then the return
LoopExhausted ==
    /\ pc = "loop"
    /\ ~RangeHasNext(iteration, params.max_iterations)
    /\ printed' = Append(printed, MsgMaxIter(params.max_iterations))
    /\ result' = ReturnAligned
    /\ pc' = "done"
    /\ UNCHANGED <<op, heap, args, params, aligned, mean_shape, old_mean, iteration,
                   idx, given, calls>>
    /\ UNCHANGED addon_vars

\* (mutant) the transform of set i is applied to the first set
AlignedImageOfFirst(h, point_sets, i, transform) ==
    Arr2(ApplyTransform(transform, h[point_sets[1]].data), 3)

\* aligned[i] = (transform @ hstack([point_sets[i], ones]).T).T[:, :3]
AlignedImage(h, point_sets, i, transform) ==
    Arr2(ApplyTransform(transform, h[point_sets[i]].data), 3)

\* the end of the loop body for set i of n: on to the next set, or to the mean
AfterSet(i, n) == IF i = n THEN "mean" ELSE "align"

\* (mutant) `break` after a failed alignment
AfterFailedSetBreak(i, n) == "mean"

\* `continue` after a failed alignment of set i of n: the same
AfterFailedSet(i, n) == IF i = n THEN "mean" ELSE "align"

\* (mutant) the loop variable is reported as it is
ConvergedReportRaw(it) == MsgConverged(it)

\* the pass count print() reports on convergence: iteration + 1
ConvergedReport(it) == MsgConverged(it + 1)

\* (mutant) the mean is recomputed from the aligned sets after every set
ReferenceRunningMean(h, mean_id, ids) ==
    MeanOfArrays([i \in 1..Len(ids) |-> h[ids[i]]])

\* the reference of procrustes_alignment in the inner loop: the array bound to
\* mean_shape, which is rebound only after the inner loop
Reference(h, mean_id, ids) == h[mean_id]

\* the body of `for i in range(len(aligned))` for i = idx - 1: align the input
\* set to the current mean and, on success, bind the transformed points
AlignSet ==
    /\ pc = "align"
    /\ \E out \in procrustes_alignment(Reference(heap, mean_shape, aligned),
                                       heap[args[idx]], params.allow_scale, FALSE) :
         /\ calls' = Append(calls, Invocation(iteration, idx, mean_shape, out))
         /\ IF out.kind = "raise"
            THEN /\ result' = Outcome(out)
                 /\ pc' = "done"
                 /\ UNCHANGED <<heap, aligned, printed, idx>>
            ELSE /\ IF out.value[1]
                    THEN LET n == Alloc(heap, AlignedImage(heap, args, idx, out.value[2]))
                         IN  /\ heap' = n.heap
                             /\ aligned' = [aligned EXCEPT ![idx] = n.id]
                             /\ printed' = printed
                    ELSE /\ printed' = (printed \o out.printed) \o <<MsgFailed(idx - 1)>>
                         /\ UNCHANGED <<heap, aligned>>
                 /\ idx' = idx + 1
                 /\ pc' = IF out.value[1] THEN AfterSet(idx, Len(aligned))
                                            ELSE AfterFailedSet(idx, Len(aligned))
                 /\ UNCHANGED result
    /\ UNCHANGED <<op, args, params, mean_shape, old_mean, iteration, given>>
    /\ UNCHANGED addon_vars

\* (mutant) a change equal to the tolerance converges
ConvergedInclusive(change, tolerance) == change <= tolerance

\* if change < tolerance
Converged(change, tolerance) == change < tolerance

\* after the inner loop: the new mean, the convergence test, and on convergence
\* the break and the return
PassEnd ==
    /\ pc = "mean"
    /\ LET n == Alloc(heap, MeanShape(heap, aligned))
           diffs == AbsDiffs(n.heap[n.id], heap[old_mean])
       IN  /\ heap' = n.heap
           /\ mean_shape' = n.id
           /\ IF diffs = {}
              THEN \* np.max of an empty array
                   /\ result' = [kind |-> "raise", value |-> <<>>, exc |-> "ValueError"]
                   /\ pc' = "done"
                   /\ UNCHANGED printed
              ELSE IF Converged(MaxOf(diffs), params.tolerance)
              THEN /\ printed' = Append(printed, ConvergedReport(iteration))
                   /\ result' = [kind |-> "return",
                                 value |-> <<TRUE, aligned, n.id>>, exc |-> ""]
                   /\ pc' = "done"
              ELSE /\ pc' = "loop"
                   /\ UNCHANGED <<printed, result>>
    /\ UNCHANGED <<op, args, params, aligned, old_mean, iteration, idx, given, calls>>
    /\ UNCHANGED addon_vars

Next ==
    \/ CallAlign
    \/ CallRmse
    \/ CallSuperimpose
    \/ PassBegin
    \/ AlignSet
    \/ PassEnd
    \/ LoopExhausted

Spec == Init /\ [][Next]_vars

\* WF_vars(AlignSet), with ENABLED <<AlignSet>>_vars written out: AlignSet has
\* an outcome whenever pc = "align" (SvdDefined), and it extends calls
AlignSetFair == []<>(pc # "align") \/ []<><<AlignSet>>_vars

\* a superimpose call is sequential code without blocking: when it can take
\* its next step, it takes it
LiveSpec ==
    /\ Spec
    /\ WF_vars(PassBegin) /\ WF_vars(PassEnd) /\ WF_vars(LoopExhausted)
    /\ AlignSetFair

-----------------------------------------------------------------------------
(* preview.py: the draw handlers of the landmark preview *)

\* the handles draw_handler_add may return
MaxHandles == 4
Handles == 1..MaxHandles

\* the callbacks registered for a draw region of the 3D view
Registered(region) == { h \in draw_handlers : h.region = region }

\* draw_handler_add returns a handle that no registered callback has
FreshHandles == Handles \ { h.handle : h \in draw_handlers }

\* (mutant) a handler is added whether or not one is held
NeedsHandlerAlways(h) == TRUE

\* if _handler_3d is None / if _handler_2d is None
NeedsHandler(h) == h = None

\* bpy.types.SpaceView3D.draw_handler_add(callback, args, 'WINDOW', region),
\* returning h
DrawHandlerAdd(handlers, h, region) ==
    handlers \cup { [handle |-> h, region |-> region] }

\* bpy.types.SpaceView3D.draw_handler_remove(h, 'WINDOW'): it raises on a
\* handle that is not registered, and the caller catches that
DrawHandlerRemove(handlers, h) ==
    IF \E x \in handlers : x.handle = h
    THEN [handlers |-> { x \in handlers : x.handle # h }, raised |-> FALSE]
    ELSE [handlers |-> handlers, raised |-> TRUE]

Entered(fn) == [fn |-> fn, held |-> <<handler_3d, handler_2d>>]

\* the scene property procrustes_preview_active is assigned and its update
\* callback preview_toggle_update runs
PreviewToggleUpdate ==
    /\ ppc = "idle"
    /\ \E enabled \in BOOLEAN :
         /\ preview_active' = enabled
         /\ ppc' = IF enabled THEN "register_3d" ELSE "unregister_3d"
    /\ entry' = Entered("preview_toggle_update")
    /\ UNCHANGED <<handler_3d, handler_2d, draw_handlers, redraw_tagged>>
    /\ UNCHANGED <<core_vars, scene_vars>>

\* register_draw_handlers() is called
RegisterDrawHandlers ==
    /\ ppc = "idle"
    /\ ppc' = "register_3d"
    /\ entry' = Entered("register_draw_handlers")
    /\ UNCHANGED <<handler_3d, handler_2d, draw_handlers, preview_active, redraw_tagged>>
    /\ UNCHANGED <<core_vars, scene_vars>>

\* unregister_draw_handlers() is called
UnregisterDrawHandlers ==
    /\ ppc = "idle"
    /\ ppc' = "unregister_3d"
    /\ entry' = Entered("unregister_draw_handlers")
    /\ UNCHANGED <<handler_3d, handler_2d, draw_handlers, preview_active, redraw_tagged>>
    /\ UNCHANGED <<core_vars, scene_vars>>

\* cleanup() is called, as by unregister() of the add-on
Cleanup ==
    /\ ppc = "idle"
    /\ ppc' = "unregister_3d"
    /\ entry' = Entered("cleanup")
    /\ UNCHANGED <<handler_3d, handler_2d, draw_handlers, preview_active, redraw_tagged>>
    /\ UNCHANGED <<core_vars, scene_vars>>

\* register_draw_handlers: the POST_VIEW handler
Register3d ==
    /\ ppc = "register_3d"
    /\ IF NeedsHandler(handler_3d)
       THEN \E h \in FreshHandles :
               /\ handler_3d' = h
               /\ draw_handlers' = DrawHandlerAdd(draw_handlers, h, "POST_VIEW")
       ELSE UNCHANGED <<handler_3d, draw_handlers>>
    /\ ppc' = "register_2d"
    /\ UNCHANGED <<handler_2d, preview_active, redraw_tagged, entry>>
    /\ UNCHANGED <<core_vars, scene_vars>>

\* register_draw_handlers: the POST_PIXEL handler
Register2d ==
    /\ ppc = "register_2d"
    /\ IF NeedsHandler(handler_2d)
       THEN \E h \in FreshHandles :
               /\ handler_2d' = h
               /\ draw_handlers' = DrawHandlerAdd(draw_handlers, h, "POST_PIXEL")
       ELSE UNCHANGED <<handler_2d, draw_handlers>>
    /\ ppc' = "redraw"
    /\ UNCHANGED <<handler_3d, preview_active, redraw_tagged, entry>>
    /\ UNCHANGED <<core_vars, scene_vars>>

\* unregister_draw_handlers: the POST_VIEW handler; _handler_3d = None also
\* when the removal raised
Unregister3d ==
    /\ ppc = "unregister_3d"
    /\ IF handler_3d # None
       THEN /\ draw_handlers' = DrawHandlerRemove(draw_handlers, handler_3d).handlers
            /\ handler_3d' = None
       ELSE UNCHANGED <<handler_3d, draw_handlers>>
    /\ ppc' = "unregister_2d"
    /\ UNCHANGED <<handler_2d, preview_active, redraw_tagged, entry>>
    /\ UNCHANGED <<core_vars, scene_vars>>

\* unregister_draw_handlers: the POST_PIXEL handler
Unregister2d ==
    /\ ppc = "unregister_2d"
    /\ IF handler_2d # None
       THEN /\ draw_handlers' = DrawHandlerRemove(draw_handlers, handler_2d).handlers
            /\ handler_2d' = None
       ELSE UNCHANGED <<handler_2d, draw_handlers>>
    /\ ppc' = "redraw"
    /\ UNCHANGED <<handler_3d, preview_active, redraw_tagged, entry>>
    /\ UNCHANGED <<core_vars, scene_vars>>

\* _area_redraw_all_view3d(), the last statement of both functions
AreaRedrawAll ==
    /\ ppc = "redraw"
    /\ redraw_tagged' = TRUE
    /\ ppc' = "idle"
    /\ UNCHANGED <<handler_3d, handler_2d, draw_handlers, preview_active, entry>>
    /\ UNCHANGED <<core_vars, scene_vars>>

\* the 3D views are redrawn, running the registered callbacks
ViewportRedraw ==
    /\ ppc = "idle"
    /\ redraw_tagged
    /\ redraw_tagged' = FALSE
    /\ UNCHANGED <<handler_3d, handler_2d, draw_handlers, preview_active, ppc, entry>>
    /\ UNCHANGED <<core_vars, scene_vars>>

PreviewNext ==
    \/ PreviewToggleUpdate
    \/ RegisterDrawHandlers
    \/ UnregisterDrawHandlers
    \/ Cleanup
    \/ Register3d
    \/ Register2d
    \/ Unregister3d
    \/ Unregister2d
    \/ AreaRedrawAll
    \/ ViewportRedraw

PreviewSpec == Init /\ [][PreviewNext]_vars

-----------------------------------------------------------------------------
(* operators.py: PROCRUSTES_OT_align_objects.execute *)

\* the number of objects in the scene
MaxObjects == 3

\* a custom property key: its prefix and the rest of the name
LandmarkKey(n) == <<"landmark_", n>>
OtherKey(n) == <<"note_", n>>

\* the custom properties of an object with the landmarks names[i] at
\* points[i] and one property that is not a landmark
Props(names, points) ==
    [key \in { LandmarkKey(names[i]) : i \in 1..Len(names) } \cup { OtherKey(1) } |->
        IF key = OtherKey(1) THEN Pt(9, 9, 9)
        ELSE points[CHOOSE i \in 1..Len(names) : LandmarkKey(names[i]) = key]]

\* a world matrix other than the identity: a translation
Moved == [a \in 1..4 |-> [b \in 1..4 |->
            IF a = b THEN ONE ELSE IF b = 4 /\ a = 1 THEN 3 * ONE ELSE 0]]

Obj(type, selected, props, matrix_world) ==
    [type |-> type, selected |-> selected, props |-> props, matrix_world |-> matrix_world]

\* a mesh whose landmarks all coincide: its alignment fails when scaling is
\* allowed, and any rotation is a solution when it is not
Coincident == Obj("MESH", TRUE, Props(<<1, 2, 3, 4>>, PairSet(0)), Eye4)

\* the objects a scene is made of
ObjectKinds ==
    { Obj("MESH", TRUE, Props(<<1, 2, 3, 4>>, Tetra), Eye4),
      Obj("MESH", TRUE, Props(<<1, 2, 3, 4>>, Image(Tetra, FlipX, 2, Pt(1, 0, 0))), Moved),
      Coincident,
      Obj("MESH", TRUE, Props(<<1, 2, 3, 5>>, Tetra), Eye4),
      Obj("MESH", TRUE, Props(<<1, 2>>, <<Pt(0, 0, 0), Pt(1, 0, 0)>>), Eye4),
      Obj("MESH", TRUE, Props(<<>>, <<>>), Eye4),
      Obj("MESH", FALSE, Props(<<1, 2, 3, 4>>, Image(Tetra, FlipX, 2, Pt(1, 0, 0))), Moved),
      Obj("EMPTY", TRUE, Props(<<1, 2, 3, 4>>, Tetra), Moved) }

\* the scenes execute is called on: MaxObjects objects named 1..MaxObjects,
\* at most one of them with coincident landmarks
Scenes ==
    { objs \in [1..MaxObjects -> ObjectKinds] :
        \A i, j \in 1..MaxObjects : objs[i] = Coincident /\ objs[j] = Coincident => i = j }

\* scene.procrustes_reference_object: unset, or any object of the scene but
\* the one with coincident landmarks (as a reference it leaves the rotation
\* of every other object undetermined)
References(objs) == { None } \cup { i \in 1..MaxObjects : objs[i] # Coincident }

MsgSelect == "Select at least 2 mesh objects with landmarks"
MsgNoLandmarks(name) == <<"Object has no landmarks", name>>
MsgNames(name) == <<"All objects must have the same landmark names. Check object", name>>
MsgFew == "Need at least 3 landmarks for alignment"
MsgUsing(name) == <<"Using as reference (will remain fixed)", name>>
MsgMean == "No reference object chosen or not in selection - using mean shape as reference"
MsgFailedObject(name) == <<"Failed to align", name>>
MsgAligned(name, scale) == <<"Aligned to reference (scale)", name, scale>>

\* selected_objects = [o for o in context.selected_objects if o.type == 'MESH'],
\* as object names, in the order of the scene
SelectedMeshes(objs) ==
    SelectSeq([i \in 1..Len(objs) |-> i],
              LAMBDA i : objs[i].selected /\ objs[i].type = "MESH")

\* landmarks = {key: Vector(obj[key]) for the keys that start with "landmark_"}
LandmarksOf(obj) ==
    [key \in { k \in DOMAIN obj.props : k[1] = "landmark_" } |-> obj.props[key]]

\* the first element of seq that is in S, 0 if none is
FirstWith(seq, S) ==
    IF \E n \in 1..Len(seq) : seq[n] \in S
    THEN seq[CHOOSE n \in 1..Len(seq) :
                 seq[n] \in S /\ \A m \in 1..(n - 1) : seq[m] \notin S]
    ELSE 0

\* the checks of execute before the reference is determined: "ok" or the
\* message reported with CANCELLED
Validation(objs, sel) ==
    IF Len(sel) < 2 THEN MsgSelect
    ELSE LET names == DOMAIN objs
             none == FirstWith(sel, { i \in names : DOMAIN LandmarksOf(objs[i]) = {} })
             landmark_names == DOMAIN LandmarksOf(objs[sel[1]])
             other == FirstWith(sel, { i \in names :
                                         DOMAIN LandmarksOf(objs[i]) # landmark_names })
         IN  IF none # 0 THEN MsgNoLandmarks(none)
             ELSE IF other # 0 THEN MsgNames(other)
             ELSE IF Cardinality(landmark_names) < 3 THEN MsgFew
             ELSE "ok"

\* sorted(landmark_names): the keys share their prefix
SortedNames(names) ==
    [n \in 1..Cardinality(names) |->
        CHOOSE key \in names : Cardinality({ k \in names : k[2] < key[2] }) = n - 1]

\* np.array([list(p) for p in points]) for the landmarks in sorted order
PointsArray(landmarks) ==
    LET q == SortedNames(DOMAIN landmarks)
    IN  Arr2([n \in 1..Len(q) |-> landmarks[q[n]]], 3)

\* the mean of every landmark over the selected objects
MeanLandmarks(objs, sel) ==
    [key \in DOMAIN LandmarksOf(objs[sel[1]]) |->
        ColMean([n \in 1..Len(sel) |-> LandmarksOf(objs[sel[n]])[key]], 3)]

\* the reference: the chosen object if it is among the selected meshes, the
\* mean shape otherwise
ReferenceOf(objs, sel, ref_obj) ==
    IF ref_obj # None /\ \E n \in 1..Len(sel) : sel[n] = ref_obj
    THEN [name |-> ref_obj, landmarks |-> LandmarksOf(objs[ref_obj])]
    ELSE [name |-> None, landmarks |-> MeanLandmarks(objs, sel)]

\* (mutant) the reference object is aligned like the others
IsFixedReferenceNever(reference_obj_name, obj_name) == FALSE

\* if reference_obj_name is not None and obj_name == reference_obj_name: continue
IsFixedReference(reference_obj_name, obj_name) ==
    reference_obj_name # None /\ obj_name = reference_obj_name

\* blender_matrix @ obj.matrix_world
MatMul4(A, B) ==
    [a \in 1..4 |-> [b \in 1..4 |->
        Rnd(A[a][1] * B[1][b] + A[a][2] * B[2][b] + A[a][3] * B[3][b] + A[a][4] * B[4][b],
            ONE)]]

\* execute is called on a scene: the checks and the choice of the reference
Execute ==
    /\ spc = "idle"
    /\ \E objs \in Scenes :
       \E sel \in { SelectedMeshes(objs) } :
       \E chk \in { Validation(objs, sel) } :
       \E s \in BOOLEAN, r \in BOOLEAN, ref_obj \in References(objs) :
         /\ objects' = objs
         /\ objects0' = objs
         /\ scene' = [reference_object |-> ref_obj, allow_scale |-> s, allow_reflection |-> r]
         /\ IF chk # "ok"
           THEN /\ reports' = <<chk>>
                /\ status' = "CANCELLED"
                /\ spc' = "done"
                /\ ex' = [NoLocals EXCEPT !.order = sel]
           ELSE \E reference \in { ReferenceOf(objs, sel, ref_obj) } :
                /\ reports' = <<IF reference.name # None THEN MsgUsing(reference.name)
                                                         ELSE MsgMean>>
                /\ ex' = [order |-> sel, reference_obj_name |-> reference.name,
                          reference_landmarks |-> reference.landmarks, k |-> 1]
                /\ spc' = "objects"
                /\ UNCHANGED status
    /\ UNCHANGED written
    /\ UNCHANGED <<core_vars, preview_vars>>

\* the body of `for obj_name, data in objects_landmarks.items()` for the
\* k-th selected mesh
AlignObject ==
    /\ spc = "objects"
    /\ ex.k <= Len(ex.order)
    /\ LET obj_name == ex.order[ex.k]
       IN  IF IsFixedReference(ex.reference_obj_name, obj_name)
           THEN /\ ex' = [ex EXCEPT !.k = @ + 1]
                /\ UNCHANGED <<spc, objects, status, reports, written>>
           ELSE \E ref_points \in { PointsArray(ex.reference_landmarks) },
                   tgt_points \in { PointsArray(LandmarksOf(objects[obj_name])) } :
                \E out \in procrustes_alignment(ref_points, tgt_points,
                                 scene.allow_scale, scene.allow_reflection) :
                  IF out.kind = "raise"
                  THEN /\ status' = out.exc
                       /\ spc' = "done"
                       /\ UNCHANGED <<objects, ex, reports, written>>
                  ELSE /\ ex' = [ex EXCEPT !.k = @ + 1]
                       /\ UNCHANGED <<spc, status>>
                       /\ IF out.value[1]
                          THEN /\ objects' = [objects EXCEPT ![obj_name].matrix_world =
                                                 MatMul4(out.value[2], @)]
                               /\ written' = Append(written, obj_name)
                               /\ reports' = Append(reports, MsgAligned(obj_name, out.value[3]))
                          ELSE /\ reports' = Append(reports, MsgFailedObject(obj_name))
                               /\ UNCHANGED <<objects, written>>
    /\ UNCHANGED <<objects0, scene>>
    /\ UNCHANGED <<core_vars, preview_vars>>

\* the loop is over: return {'FINISHED'}
Finished ==
    /\ spc = "objects"
    /\ ex.k > Len(ex.order)
    /\ status' = "FINISHED"
    /\ spc' = "done"
    /\ UNCHANGED <<objects, objects0, scene, ex, reports, written>>
    /\ UNCHANGED <<core_vars, preview_vars>>

SceneNext ==
    \/ Execute
    \/ AlignObject
    \/ Finished

SceneSpec == Init /\ [][SceneNext]_vars

-----------------------------------------------------------------------------
(* Properties *)

Range(f) == { f[i] : i \in DOMAIN f }

AlignDone == op = "align" /\ pc = "done"
AlignFailed == AlignDone /\ result.kind = "return" /\ ~result.value[1]
AlignSucceeded == AlignDone /\ result.kind = "return" /\ result.value[1]

GpaDone == op = "superimpose" /\ pc = "done"
GpaSucceeded == GpaDone /\ result.kind = "return" /\ result.value[1]

\* both inputs of the align call are N x 3 with N >= 3
ValidAlignInputs ==
    /\ given[1].shape = given[2].shape
    /\ Len(given[1].shape) = 2
    /\ given[1].shape[1] >= 3
    /\ given[1].shape[2] = 3

\* the Frobenius norm of the centered target of the align call
TargetNorm == FrobNorm(Centered(given[2].data, ColMean(given[2].data, 3)))

\* C1: every failure procrustes_alignment returns carries the 4 x 4 identity and
\* scale exactly 1.0, whatever the inputs and the two flags
C1_FailureIsIdentity ==
    AlignFailed => (result.value[2] = Eye4 /\ result.value[3] = ONE)

\* a degenerate-scale failure with reflections allowed
C1_Witness ==
    AlignFailed /\ printed = <<MsgVariance>> /\ params.allow_reflection

\* C2 (as claimed): no call of align or superimpose ends in a raised exception
C2_NeverRaises == result.kind # "raise"

\* C3 (as claimed): a caller can tell an InsufficientPoints failure from a
\* ShapeMismatch failure by what the call returns
C3_ReasonsDistinguishable ==
    (AlignFailed /\ printed = <<MsgPoints>>) =>
        result.value # FailureReturn(MsgShape, WorkValidate).value

\* C3 (amended): differing shapes fail with the shape diagnostic, equal shapes
\* with N < 3 with the points diagnostic, equal N x d shapes with N >= 3 and
\* d # 3 with the dimension diagnostic; each returns the same failure tuple
\* after the validation alone, so only the printed text tells the reasons apart
C3_ValidationFailures ==
    AlignDone =>
        LET r == given[1].shape
            t == given[2].shape
        IN  /\ (printed = <<MsgShape>>) <=> (r # t)
            /\ (printed = <<MsgPoints>>) <=> (r = t /\ r[1] < 3)
            /\ (r = t /\ r[1] >= 3 /\ Len(r) = 2 /\ r[2] # 3) => printed = <<MsgDim>>
            /\ (printed \in {<<MsgShape>>, <<MsgPoints>>, <<MsgDim>>}) =>
                   /\ result = [kind |-> "return", value |-> <<FALSE, Eye4, ONE>>, exc |-> ""]
                   /\ calls[1].work = WorkValidate

\* two points in both sets: the points diagnostic
C3_Witness ==
    AlignFailed /\ printed = <<MsgPoints>> /\ given[1].shape = <<2, 3>>

\* C4: superimpose returns failure exactly when fewer than 2 sets are given or
\* a set's shape differs from the first's, and then before any alignment, copy
\* or mean
C4_InputViolationsOnly ==
    op = "superimpose" =>
        LET bad == \/ Len(given) < 2
                   \/ \E i \in 1..Len(given) : given[i].shape # given[1].shape
        IN  /\ bad => /\ pc = "done"
                      /\ result.kind = "return" /\ ~result.value[1]
                      /\ calls = <<>> /\ aligned = <<>> /\ mean_shape = 0
                      /\ iteration = -1
            /\ (result.kind = "return" /\ ~result.value[1]) => bad

\* three sets, the third of another shape
C4_Witness ==
    /\ GpaDone /\ ~result.value[1]
    /\ Len(given) = 3
    /\ given[2].shape = given[1].shape
    /\ given[3].shape # given[1].shape

\* the change of the last pass was below the tolerance
LastPassConverged ==
    /\ iteration >= 0
    /\ AbsDiffs(heap[mean_shape], heap[old_mean]) # {}
    /\ MaxOf(AbsDiffs(heap[mean_shape], heap[old_mean])) < params.tolerance

\* C5 (as claimed): a successful superimpose returns the number of passes with
\* its result
C5_ReturnsIterationCount ==
    GpaSucceeded => (Len(result.value) = 4 /\ result.value[4] = iteration + 1)

\* C5 (amended): a run that ends without a converged pass still returns
\* (True, aligned, mean_shape); the pass count is not returned but printed:
\* max_iterations when the cap was reached, the number of the converging pass
\* when the loop stopped early
C5_CapIsSuccess ==
    GpaSucceeded =>
        /\ result.value = <<TRUE, aligned, mean_shape>>
        /\ IF LastPassConverged
           THEN printed[Len(printed)] = MsgConverged(iteration + 1)
           ELSE /\ printed[Len(printed)] = MsgMaxIter(params.max_iterations)
                /\ iteration + 1 = params.max_iterations

\* two passes, none converged
C5_Witness ==
    /\ GpaSucceeded /\ ~LastPassConverged
    /\ params.max_iterations = 2 /\ iteration = 1
    /\ params.tolerance > 0

\* the images of input set i under the transforms the align calls for set i gave
ImagesOf(i) ==
    UNION { { Arr2(ApplyTransform(o.value[2], given[i].data), 3) :
                o \in { x \in procrustes_alignment(heap[c.ref], given[i],
                                                   params.allow_scale, FALSE) :
                          x.kind = "return" /\ x.value[1] } }
            : c \in { calls[k] : k \in { n \in 1..Len(calls) : calls[n].set = i } } }

\* C6: a successful superimpose returns one aligned set per input set, in input
\* order, each a copy of its input set or its image under a transform computed
\* for that set
C6_AlignedFromOwnInput ==
    GpaSucceeded =>
        /\ Len(result.value[2]) = Len(args)
        /\ \A i \in 1..Len(args) :
              \/ heap[result.value[2][i]] = given[i]
              \/ heap[result.value[2][i]] \in ImagesOf(i)

\* two passes done, a set that never aligned next to one that did
C6_Witness ==
    /\ GpaSucceeded /\ iteration = 1
    /\ \E i, j \in 1..Len(args) :
          /\ heap[result.value[2][i]] = given[i]
          /\ heap[result.value[2][j]] # given[j]

\* C7: the input arrays hold the values they were given, and the aligned sets
\* and the mean of superimpose are arrays other than the inputs
C7_InputsUntouched ==
    op # "none" =>
        /\ \A i \in 1..Len(args) : heap[args[i]] = given[i]
        /\ op = "superimpose" =>
              /\ \A i \in 1..Len(aligned) : aligned[i] \notin Range(args)
              /\ mean_shape \notin Range(args)
              /\ result.kind = "return" =>
                    /\ \A i \in 1..Len(result.value[2]) :
                          result.value[2][i] \notin Range(args)
                    /\ result.value[3] \notin Range(args)

\* max_iterations = 0: the copies are returned as they are
C7_Witness ==
    /\ GpaSucceeded /\ params.max_iterations = 0
    /\ \A i \in 1..Len(args) : heap[result.value[2][i]] = given[i]

\* the tuples an align call on the same inputs may return with allow_reflection = r
AlignValues(r) ==
    { o.value : o \in procrustes_alignment(given[1], given[2], params.allow_scale, r) }

C9_FailsBelowThreshold ==
    (AlignDone /\ ValidAlignInputs) =>
        (AlignFailed <=> (params.allow_scale /\ TargetNorm < Eps))

\* C9 (amended): on valid inputs align fails exactly when allow_scale is set and
\* the centered target's norm is not greater than 1e-10; without allow_scale it
\* succeeds, also on coincident points, with scale exactly 1.0
C9_FailsAtOrBelowThreshold ==
    (AlignDone /\ ValidAlignInputs) =>
        /\ AlignFailed <=> (params.allow_scale /\ TargetNorm <= Eps)
        /\ AlignFailed => (printed = <<MsgVariance>> /\ calls[1].work = WorkScale)
        /\ ~params.allow_scale => (AlignSucceeded /\ result.value[3] = ONE)

\* a target whose centered norm is exactly 1e-10
C9_Witness ==
    AlignFailed /\ ValidAlignInputs /\ params.allow_scale /\ TargetNorm = Eps

\* the align calls of the pass in progress
CallsOfPass == { k \in 1..Len(calls) : calls[k].pass = iteration }

\* the step is a returned failure of the alignment of set idx
FailedSetStep ==
    /\ pc = "align"
    /\ Len(calls') = Len(calls) + 1
    /\ ~calls'[Len(calls')].ok
    /\ result'.kind # "raise"

PassImages(i) ==
    { Arr2(ApplyTransform(o.value[2], given[i].data), 3) :
        o \in { x \in procrustes_alignment(heap[old_mean], given[i],
                                           params.allow_scale, FALSE) :
                  x.kind = "return" /\ x.value[1] } }

C12_TerminatesWithinBound ==
    /\ [](op = "superimpose" =>
            /\ Len(calls) <= params.max_iterations * Len(args)
            /\ iteration < params.max_iterations \/ iteration = -1
            /\ (pc = "done" /\ params.max_iterations = 0 /\ result.value[1]) =>
                  /\ calls = <<>>
                  /\ \A i \in 1..Len(args) : heap[result.value[2][i]] = given[i]
                  /\ heap[result.value[3]] = MeanOfArrays(given))
    /\ (op = "superimpose") ~> (pc = "done")

\* a tolerance no change is below, and every pass of the cap run on every set
C12_Witness ==
    /\ GpaSucceeded /\ params.tolerance <= 0
    /\ params.max_iterations >= 2 /\ Len(args) >= 2
    /\ Len(calls) = params.max_iterations * Len(args)

\* the change of the pass that has just ended: np.max(np.abs(mean_shape - old_mean))
PassChange == MaxOf(AbsDiffs(heap[mean_shape], heap[old_mean]))

\* C13: the pass whose change is below the tolerance is the last one: the call
\* returns at its end and takes no step after it; a pass whose change is not
\* below the tolerance goes back to the loop, so a new pass starts only when
\* there was none before or the change of the one before was >= tolerance,
\* and a call that returns after fewer than max_iterations passes has a last
\* pass whose change is below the tolerance
C13_StopsAtFirstConvergedPass ==
    /\ [][(pc = "mean" /\ result'.kind # "raise") =>
            /\ PassChange' < params.tolerance =>
                  (pc' = "done" /\ result'.value = <<TRUE, aligned, mean_shape'>>)
            /\ PassChange' >= params.tolerance => (pc' = "loop" /\ result' = result)
            /\ iteration' = iteration]_vars
    /\ [][pc # "done"]_vars
    /\ [][(pc = "loop" /\ pc' = "align") =>
            (iteration = -1 \/ PassChange >= params.tolerance)]_vars
    /\ []((GpaSucceeded /\ iteration + 1 < params.max_iterations) => LastPassConverged)

\* a call whose second pass converged, after a first one that moved the mean
C13_Witness ==
    /\ GpaSucceeded /\ LastPassConverged
    /\ iteration = 1
    /\ heap[mean_shape] # heap[old_mean]

\* C14: the mean a successful superimpose returns is the elementwise average of
\* the aligned sets it returns, after any number of passes, however the loop
\* ended and whichever sets failed to align
C14_MeanOfReturnedSets ==
    GpaSucceeded =>
        /\ Len(result.value[2]) = Len(given)
        /\ heap[result.value[3]] =
              MeanOfArrays([i \in 1..Len(result.value[2]) |-> heap[result.value[2][i]]])

\* a converged call in which one set never aligned and another did
C14_Witness ==
    /\ GpaSucceeded /\ LastPassConverged
    /\ \E a, b \in 1..Len(calls) : ~calls[a].ok /\ calls[b].ok
    /\ \E i \in 1..Len(args) : heap[aligned[i]] # given[i]

\* a finished superimpose call on M >= 2 sets of one N x d shape that no
\* alignment accepts (N < 3 or d # 3), with at least one pass allowed and a
\* positive tolerance
DegenerateSetsCall ==
    /\ GpaDone /\ Len(given) >= 2
    /\ \A i \in 1..Len(given) : given[i].shape = given[1].shape
    /\ Len(given[1].shape) = 2
    /\ given[1].shape[1] < 3 \/ given[1].shape[2] # 3
    /\ params.max_iterations >= 1 /\ params.tolerance > 0

\* the call returned success after one pass in which every alignment failed,
\* with aligned sets equal to the inputs
OnePassAllFailed ==
    /\ result.kind = "return" /\ result.value[1]
    /\ iteration = 0
    /\ Len(calls) = Len(given)
    /\ \A k \in 1..Len(calls) : ~calls[k].ok
    /\ \A i \in 1..Len(given) : heap[result.value[2][i]] = given[i]
    /\ heap[result.value[3]] = heap[old_mean]

\* C15 (as claimed): superimpose on M >= 2 sets of one shape with fewer than 3
\* points each, or with a dimensionality other than 3, returns success after
\* exactly one pass, all alignments failed and the sets as they were given
C15_DegenerateSetsSucceed == DegenerateSetsCall => OnePassAllFailed

\* C15 (what the code does): that holds when the sets are not empty; on sets
\* of shape (0, d) the pass ends in the ValueError of np.max
C15_NonEmptyDegenerateSets ==
    DegenerateSetsCall =>
        IF given[1].shape[1] > 0
        THEN OnePassAllFailed
        ELSE result.kind = "raise" /\ result.exc = "ValueError" /\ iteration = 0

\* the handle variable h is None and nothing is registered for the region, or
\* it is the handle of the one callback registered for the region
HeldIsRegistered(h, region) ==
    IF h = None
    THEN Registered(region) = {}
    ELSE Registered(region) = { [handle |-> h, region |-> region] }

\* the call in progress, or the last one, is one that unregisters
Unregistering ==
    \/ entry.fn \in {"unregister_draw_handlers", "cleanup"}
    \/ entry.fn = "preview_toggle_update" /\ ~preview_active

\* C16: at most one POST_VIEW and one POST_PIXEL callback is registered, and
\* _handler_3d / _handler_2d is not None exactly when it is the handle of the
\* registered one; registering while a handle is held adds nothing; after
\* unregister_draw_handlers, cleanup or a toggle to off both variables are
\* None and nothing is registered
C16_HandlersRegisteredOnce ==
    /\ [](/\ Cardinality(Registered("POST_VIEW")) <= 1
          /\ Cardinality(Registered("POST_PIXEL")) <= 1
          /\ HeldIsRegistered(handler_3d, "POST_VIEW")
          /\ HeldIsRegistered(handler_2d, "POST_PIXEL")
          /\ (ppc \in {"idle", "redraw"} /\ Unregistering) =>
                (handler_3d = None /\ handler_2d = None /\ draw_handlers = {}))
    /\ [][(ppc = "register_3d" /\ handler_3d # None) =>
            UNCHANGED <<handler_3d, draw_handlers>>]_vars
    /\ [][(ppc = "register_2d" /\ handler_2d # None) =>
            UNCHANGED <<handler_2d, draw_handlers>>]_vars

\* register_draw_handlers has run to its end, called with the preview on and
\* both handlers registered already
C16_Witness ==
    /\ ppc = "idle" /\ entry.fn = "register_draw_handlers"
    /\ preview_active
    /\ handler_3d # None /\ handler_2d # None
    /\ entry.held = <<handler_3d, handler_2d>>

\* the names of the objects execute has assigned a matrix_world to
Written == { written[n] : n \in 1..Len(written) }

\* the selected meshes of the scene execute was called on, and what its four
\* checks ask of them
MeshNames == { i \in 1..Len(objects0) : objects0[i].selected /\ objects0[i].type = "MESH" }
LandmarkNames(i) == { key \in DOMAIN objects0[i].props : key[1] = "landmark_" }
PassesValidation ==
    /\ Cardinality(MeshNames) >= 2
    /\ \A i \in MeshNames : LandmarkNames(i) # {}
    /\ \A i, j \in MeshNames : LandmarkNames(i) = LandmarkNames(j)
    /\ \A i \in MeshNames : Cardinality(LandmarkNames(i)) >= 3

\* C17: align_objects changes only the matrix_world of selected meshes other
\* than the chosen reference, and only on a run that passes the validation:
\* a run that returns CANCELLED has changed no object, a chosen reference that
\* is in the selection is never assigned to, every other object is assigned to
\* at most once, and no property of any object is written.
C17_OnlySelectedMeshesMoved ==
    spc # "idle" =>
        /\ Len(objects) = Len(objects0)
        /\ \A i \in 1..Len(objects0) :
              /\ objects[i].props = objects0[i].props
              /\ objects[i].type = objects0[i].type
              /\ objects[i].selected = objects0[i].selected
              /\ i \notin Written => objects[i] = objects0[i]
        /\ Written \subseteq MeshNames
        /\ \A a, b \in 1..Len(written) : written[a] = written[b] => a = b
        /\ scene.reference_object \in MeshNames => scene.reference_object \notin Written
        /\ Written # {} => PassesValidation
        /\ status = "CANCELLED" => (~PassesValidation /\ objects = objects0 /\ written = <<>>)

\* a finished run with a chosen reference in the selection, another mesh
\* that was moved, and an object outside the selected meshes
C17_Witness ==
    /\ status = "FINISHED"
    /\ scene.reference_object \in MeshNames
    /\ \E i \in Written : objects[i].matrix_world # objects0[i].matrix_world
    /\ \E j \in 1..Len(objects0) : j \notin MeshNames /\ objects0[j].matrix_world # Eye4

\* for H = 0 the rotations of the pairs with Vt = I are those of all the pairs
ZeroSvd ==
    \A r \in BOOLEAN :
        Rotations(Zero3, r) =
            UNION { { Rotation(c.U, Vt, r) : Vt \in SvdRight(c) } : c \in SvdLeft(Zero3) }

\* np.linalg.svd has a modelled decomposition for every matrix the program
\* forms: for every pair an align call may be given, and for every alignment
\* to the mean shape that a superimposition reaches
SvdDefined ==
    /\ pc = "idle" => ZeroSvd
    /\ pc = "idle" =>
          \A r \in AlignPool : \A t \in AlignPool : \A s \in BOOLEAN :
              procrustes_alignment(r, t, s, FALSE) # {}
    /\ pc = "align" =>
          procrustes_alignment(heap[mean_shape], heap[args[idx]],
                               params.allow_scale, FALSE) # {}

\* The same for the alignments of align_objects: every object the operator
\* aligns has a decomposition in the model.
SceneSvdDefined ==
    (spc = "objects" /\ ex.k <= Len(ex.order)
       /\ ~(ex.reference_obj_name # None /\ ex.order[ex.k] = ex.reference_obj_name)) =>
        procrustes_alignment(PointsArray(ex.reference_landmarks),
                             PointsArray(LandmarksOf(objects[ex.order[ex.k]])),
                             scene.allow_scale, scene.allow_reflection) # {}

====
